---- MODULE Spec2Model ----
(***************************************************************************)
(* A model of wizmon: WizardMoney, a mutable record of three integer       *)
(* denomination counts (galleons, sickles, knuts), with its conversions    *)
(* and arithmetic operators.                                               *)
(*                                                                         *)
(* The state is a small heap of WizardMoney objects, the caller's two      *)
(* variables that refer to the receiver (amt and alias), and a record of   *)
(* the call made last together with what it returned or raised.            *)
(***************************************************************************)
EXTENDS Integers, Sequences, FiniteSets, TLC

\* Currency constants.
KNUTS_PER_SICKLE == 29
SICKLES_PER_GALLEON == 17
KNUTS_PER_GALLEON == SICKLES_PER_GALLEON * KNUTS_PER_SICKLE

\* Bounds of the inputs.
MaxGalleons == 1    \* galleons of the constructed amount lie in -MaxGalleons..MaxGalleons
MaxCarry == 1       \* sickles / knuts lie within 1 of a multiple i of 17 / 29, |i| <= MaxCarry
MaxOther == 1       \* fields of an amount operand lie in -MaxOther..MaxOther
MaxInt == 3         \* int operands lie in -MaxInt..MaxInt
MaxNum == 6         \* float operands are n / 2^FracBits, n in -MaxNum..MaxNum
FracBits == 2       \* binary fraction digits of a float operand
MaxExp == 2         \* int exponents lie in -MaxExp..MaxExp
MaxRootBase == 8    \* a fractional power is taken of amounts whose value v has |v| <= MaxRootBase
MaxPowBase == 1200  \* a whole power is taken of amounts whose value v has |v| <= MaxPowBase

----------------------------------------------------------------------------
\* Python's integer arithmetic.

\* a // b on ints: the quotient rounded toward negative infinity.
PyFloorDiv(a, b) == IF b > 0 THEN a \div b ELSE (0 - a) \div (0 - b)

\* a % b on ints: the remainder has the sign of the divisor.
PyMod(a, b) == a - b * PyFloorDiv(a, b)

\* int(x) of the number n / d (d > 0): truncation toward zero.
PyTrunc(n, d) == IF n >= 0 THEN n \div d ELSE 0 - ((0 - n) \div d)

RECURSIVE IntPow(_, _)
\* b ** e on ints, e >= 0.
IntPow(b, e) == IF e = 0 THEN 1 ELSE b * IntPow(b, e - 1)

----------------------------------------------------------------------------
\* WizardMoney objects.

\* The constructor called with three ints.
WizardMoney(g, s, k) == [galleons |-> g, sickles |-> s, knuts |-> k]

\* The value property: the worth in knuts.
value(self) ==
    (self.galleons * KNUTS_PER_GALLEON) + (self.sickles * KNUTS_PER_SICKLE) + self.knuts

asKnuts(self) ==
    LET knuts == self.knuts + (self.galleons * KNUTS_PER_GALLEON)
                            + (self.sickles * KNUTS_PER_SICKLE)
    IN  WizardMoney(0, 0, knuts)

\* asSickles, but the galleons are dropped instead of being turned into
\* sickles.
asSickles_DropGalleons(self) ==
    LET sickles == self.sickles + PyFloorDiv(self.knuts, KNUTS_PER_SICKLE)
        knuts == PyMod(self.knuts, KNUTS_PER_SICKLE)
    IN  WizardMoney(0, sickles, knuts)

asSickles(self) ==
    LET sickles == self.sickles + (self.galleons * SICKLES_PER_GALLEON)
                                + PyFloorDiv(self.knuts, KNUTS_PER_SICKLE)
        knuts == PyMod(self.knuts, KNUTS_PER_SICKLE)
    IN  WizardMoney(0, sickles, knuts)

\* asGalleons, but the sickles are reduced before the knuts are carried into
\* them.
asGalleons_CarryLate(self) ==
    LET galleons == self.galleons + PyFloorDiv(self.sickles, SICKLES_PER_GALLEON)
        sickles == PyMod(self.sickles, SICKLES_PER_GALLEON)
                       + PyFloorDiv(self.knuts, KNUTS_PER_SICKLE)
        knuts == PyMod(self.knuts, KNUTS_PER_SICKLE)
    IN  WizardMoney(galleons, sickles, knuts)

asGalleons(self) ==
    LET sickles1 == self.sickles + PyFloorDiv(self.knuts, KNUTS_PER_SICKLE)
        knuts == PyMod(self.knuts, KNUTS_PER_SICKLE)
        galleons == self.galleons + PyFloorDiv(sickles1, SICKLES_PER_GALLEON)
        sickles == PyMod(sickles1, SICKLES_PER_GALLEON)
    IN  WizardMoney(galleons, sickles, knuts)

\* The in-place conversions, one assignment after the other; each yields the
\* receiver's fields after the call.
\* convertToKnuts, but the sickles are not reset.
convertToKnuts_KeepSickles(self) ==
    LET s1 == [self EXCEPT !.knuts = self.knuts + (self.galleons * KNUTS_PER_GALLEON)
                                                + (self.sickles * KNUTS_PER_SICKLE)]
    IN  [s1 EXCEPT !.galleons = 0]

convertToKnuts(self) ==
    LET s1 == [self EXCEPT !.knuts = self.knuts + (self.galleons * KNUTS_PER_GALLEON)
                                                + (self.sickles * KNUTS_PER_SICKLE)]
        s2 == [s1 EXCEPT !.galleons = 0]
    IN  [s2 EXCEPT !.sickles = 0]

\* convertToSickles, but the knuts are reduced before they are carried into
\* the sickles.
convertToSickles_ModFirst(self) ==
    LET s1 == [self EXCEPT !.knuts = PyMod(self.knuts, KNUTS_PER_SICKLE)]
        s2 == [s1 EXCEPT !.sickles = s1.sickles
                               + (s1.galleons * SICKLES_PER_GALLEON)
                               + PyFloorDiv(s1.knuts, KNUTS_PER_SICKLE)]
    IN  [s2 EXCEPT !.galleons = 0]

convertToSickles(self) ==
    LET s1 == [self EXCEPT !.sickles = self.sickles
                               + (self.galleons * SICKLES_PER_GALLEON)
                               + PyFloorDiv(self.knuts, KNUTS_PER_SICKLE)]
        s2 == [s1 EXCEPT !.knuts = PyMod(s1.knuts, KNUTS_PER_SICKLE)]
    IN  [s2 EXCEPT !.galleons = 0]

\* convertToGalleons, but the galleons are taken from the sickles the receiver
\* had before the knuts were carried into them.
convertToGalleons_StaleSickles(self) ==
    LET s1 == [self EXCEPT !.sickles = self.sickles + PyFloorDiv(self.knuts, KNUTS_PER_SICKLE)]
        s2 == [s1 EXCEPT !.knuts = PyMod(s1.knuts, KNUTS_PER_SICKLE)]
        s3 == [s2 EXCEPT !.galleons = s2.galleons + PyFloorDiv(self.sickles, SICKLES_PER_GALLEON)]
    IN  [s3 EXCEPT !.sickles = PyMod(s3.sickles, SICKLES_PER_GALLEON)]

convertToGalleons(self) ==
    LET s1 == [self EXCEPT !.sickles = self.sickles + PyFloorDiv(self.knuts, KNUTS_PER_SICKLE)]
        s2 == [s1 EXCEPT !.knuts = PyMod(s1.knuts, KNUTS_PER_SICKLE)]
        s3 == [s2 EXCEPT !.galleons = s2.galleons + PyFloorDiv(s2.sickles, SICKLES_PER_GALLEON)]
    IN  [s3 EXCEPT !.sickles = PyMod(s3.sickles, SICKLES_PER_GALLEON)]

\* An amount whose fields hold floats: the fields are galleons / den,
\* sickles / den and knuts / den.  __imod__ with a float operand leaves such
\* fields; every other assignment to a field passes through int().
FloatMoney(g, s, k, den) == [galleons |-> g, sickles |-> s, knuts |-> k, den |-> den]

\* The denominator of an amount's fields: 1 when they are ints.
Den(self) == IF "den" \in DOMAIN self THEN self.den ELSE 1

\* convertToGalleons on float fields: // and % of floats, which are exact on
\* these values.
convertToGalleonsFloat(self) ==
    LET s1 == [self EXCEPT !.sickles = self.sickles
                   + PyFloorDiv(self.knuts, KNUTS_PER_SICKLE * self.den) * self.den]
        s2 == [s1 EXCEPT !.knuts = PyMod(s1.knuts, KNUTS_PER_SICKLE * s1.den)]
        s3 == [s2 EXCEPT !.galleons = s2.galleons
                   + PyFloorDiv(s2.sickles, SICKLES_PER_GALLEON * s2.den) * s2.den]
    IN  [s3 EXCEPT !.sickles = PyMod(s3.sickles, SICKLES_PER_GALLEON * s3.den)]

----------------------------------------------------------------------------
\* Python values passed as operands.  A number is n / d (d = 1 for an int); an
\* amount operand carries its fields and the heap index of its object.

NoObj == WizardMoney(0, 0, 0)

PyInt(n) == [t |-> "int", n |-> n, d |-> 1, obj |-> NoObj, ref |-> 0]
PyFloat(n, d) == [t |-> "float", n |-> n, d |-> d, obj |-> NoObj, ref |-> 0]
PyNone == [t |-> "NoneType", n |-> 0, d |-> 1, obj |-> NoObj, ref |-> 0]
PyObj(a, r) == [t |-> "WizardMoney", n |-> 0, d |-> 1, obj |-> a, ref |-> r]

\* other % 1 == 0
IsWhole(other) == PyMod(other.n, other.d) = 0

\* What a method does: the receiver's fields when it ends, and whether it
\* returned self, None, a bool or freshly constructed objects, or raised.
Returned(self, objs) == [self |-> self, kind |-> "new", new |-> objs, val |-> FALSE, err |-> ""]
ReturnedSelf(self) == [self |-> self, kind |-> "self", new |-> <<>>, val |-> FALSE, err |-> ""]
ReturnedNone(self) == [self |-> self, kind |-> "none", new |-> <<>>, val |-> FALSE, err |-> ""]
ReturnedBool(self, b) == [self |-> self, kind |-> "bool", new |-> <<>>, val |-> b, err |-> ""]
Raised(self, e) == [self |-> self, kind |-> "raise", new |-> <<>>, val |-> FALSE, err |-> e]

\* A str is the sequence of its characters.  A printable ASCII character, a
\* tab, a line feed, a carriage return or a form feed is the string of that
\* one character; any other character is the string "U+" and the four to six
\* hexadecimal digits of its code point, such as "U+0663" for the Arabic-Indic
\* digit three.
PyStr(s) == [t |-> "str", n |-> 0, d |-> 1, obj |-> NoObj, ref |-> 0, s |-> s]

\* The characters int() reads as decimal digits: the decimal digit characters
\* of Unicode (category Nd), in the order of their code points, in which
\* every script has its ten digits in a row from zero to nine.
DigitChars ==
    <<"0", "1", "2", "3", "4", "5", "6", "7", "8", "9",
      "U+0660", "U+0661", "U+0662", "U+0663", "U+0664", "U+0665", "U+0666", "U+0667", "U+0668", "U+0669",
      "U+06F0", "U+06F1", "U+06F2", "U+06F3", "U+06F4", "U+06F5", "U+06F6", "U+06F7", "U+06F8", "U+06F9",
      "U+07C0", "U+07C1", "U+07C2", "U+07C3", "U+07C4", "U+07C5", "U+07C6", "U+07C7", "U+07C8", "U+07C9",
      "U+0966", "U+0967", "U+0968", "U+0969", "U+096A", "U+096B", "U+096C", "U+096D", "U+096E", "U+096F",
      "U+09E6", "U+09E7", "U+09E8", "U+09E9", "U+09EA", "U+09EB", "U+09EC", "U+09ED", "U+09EE", "U+09EF",
      "U+0A66", "U+0A67", "U+0A68", "U+0A69", "U+0A6A", "U+0A6B", "U+0A6C", "U+0A6D", "U+0A6E", "U+0A6F",
      "U+0AE6", "U+0AE7", "U+0AE8", "U+0AE9", "U+0AEA", "U+0AEB", "U+0AEC", "U+0AED", "U+0AEE", "U+0AEF",
      "U+0B66", "U+0B67", "U+0B68", "U+0B69", "U+0B6A", "U+0B6B", "U+0B6C", "U+0B6D", "U+0B6E", "U+0B6F",
      "U+0BE6", "U+0BE7", "U+0BE8", "U+0BE9", "U+0BEA", "U+0BEB", "U+0BEC", "U+0BED", "U+0BEE", "U+0BEF",
      "U+0C66", "U+0C67", "U+0C68", "U+0C69", "U+0C6A", "U+0C6B", "U+0C6C", "U+0C6D", "U+0C6E", "U+0C6F",
      "U+0CE6", "U+0CE7", "U+0CE8", "U+0CE9", "U+0CEA", "U+0CEB", "U+0CEC", "U+0CED", "U+0CEE", "U+0CEF",
      "U+0D66", "U+0D67", "U+0D68", "U+0D69", "U+0D6A", "U+0D6B", "U+0D6C", "U+0D6D", "U+0D6E", "U+0D6F",
      "U+0DE6", "U+0DE7", "U+0DE8", "U+0DE9", "U+0DEA", "U+0DEB", "U+0DEC", "U+0DED", "U+0DEE", "U+0DEF",
      "U+0E50", "U+0E51", "U+0E52", "U+0E53", "U+0E54", "U+0E55", "U+0E56", "U+0E57", "U+0E58", "U+0E59",
      "U+0ED0", "U+0ED1", "U+0ED2", "U+0ED3", "U+0ED4", "U+0ED5", "U+0ED6", "U+0ED7", "U+0ED8", "U+0ED9",
      "U+0F20", "U+0F21", "U+0F22", "U+0F23", "U+0F24", "U+0F25", "U+0F26", "U+0F27", "U+0F28", "U+0F29",
      "U+1040", "U+1041", "U+1042", "U+1043", "U+1044", "U+1045", "U+1046", "U+1047", "U+1048", "U+1049",
      "U+1090", "U+1091", "U+1092", "U+1093", "U+1094", "U+1095", "U+1096", "U+1097", "U+1098", "U+1099",
      "U+17E0", "U+17E1", "U+17E2", "U+17E3", "U+17E4", "U+17E5", "U+17E6", "U+17E7", "U+17E8", "U+17E9",
      "U+1810", "U+1811", "U+1812", "U+1813", "U+1814", "U+1815", "U+1816", "U+1817", "U+1818", "U+1819",
      "U+1946", "U+1947", "U+1948", "U+1949", "U+194A", "U+194B", "U+194C", "U+194D", "U+194E", "U+194F",
      "U+19D0", "U+19D1", "U+19D2", "U+19D3", "U+19D4", "U+19D5", "U+19D6", "U+19D7", "U+19D8", "U+19D9",
      "U+1A80", "U+1A81", "U+1A82", "U+1A83", "U+1A84", "U+1A85", "U+1A86", "U+1A87", "U+1A88", "U+1A89",
      "U+1A90", "U+1A91", "U+1A92", "U+1A93", "U+1A94", "U+1A95", "U+1A96", "U+1A97", "U+1A98", "U+1A99",
      "U+1B50", "U+1B51", "U+1B52", "U+1B53", "U+1B54", "U+1B55", "U+1B56", "U+1B57", "U+1B58", "U+1B59",
      "U+1BB0", "U+1BB1", "U+1BB2", "U+1BB3", "U+1BB4", "U+1BB5", "U+1BB6", "U+1BB7", "U+1BB8", "U+1BB9",
      "U+1C40", "U+1C41", "U+1C42", "U+1C43", "U+1C44", "U+1C45", "U+1C46", "U+1C47", "U+1C48", "U+1C49",
      "U+1C50", "U+1C51", "U+1C52", "U+1C53", "U+1C54", "U+1C55", "U+1C56", "U+1C57", "U+1C58", "U+1C59",
      "U+A620", "U+A621", "U+A622", "U+A623", "U+A624", "U+A625", "U+A626", "U+A627", "U+A628", "U+A629",
      "U+A8D0", "U+A8D1", "U+A8D2", "U+A8D3", "U+A8D4", "U+A8D5", "U+A8D6", "U+A8D7", "U+A8D8", "U+A8D9",
      "U+A900", "U+A901", "U+A902", "U+A903", "U+A904", "U+A905", "U+A906", "U+A907", "U+A908", "U+A909",
      "U+A9D0", "U+A9D1", "U+A9D2", "U+A9D3", "U+A9D4", "U+A9D5", "U+A9D6", "U+A9D7", "U+A9D8", "U+A9D9",
      "U+A9F0", "U+A9F1", "U+A9F2", "U+A9F3", "U+A9F4", "U+A9F5", "U+A9F6", "U+A9F7", "U+A9F8", "U+A9F9",
      "U+AA50", "U+AA51", "U+AA52", "U+AA53", "U+AA54", "U+AA55", "U+AA56", "U+AA57", "U+AA58", "U+AA59",
      "U+ABF0", "U+ABF1", "U+ABF2", "U+ABF3", "U+ABF4", "U+ABF5", "U+ABF6", "U+ABF7", "U+ABF8", "U+ABF9",
      "U+FF10", "U+FF11", "U+FF12", "U+FF13", "U+FF14", "U+FF15", "U+FF16", "U+FF17", "U+FF18", "U+FF19",
      "U+104A0", "U+104A1", "U+104A2", "U+104A3", "U+104A4", "U+104A5", "U+104A6", "U+104A7", "U+104A8", "U+104A9",
      "U+10D30", "U+10D31", "U+10D32", "U+10D33", "U+10D34", "U+10D35", "U+10D36", "U+10D37", "U+10D38", "U+10D39",
      "U+11066", "U+11067", "U+11068", "U+11069", "U+1106A", "U+1106B", "U+1106C", "U+1106D", "U+1106E", "U+1106F",
      "U+110F0", "U+110F1", "U+110F2", "U+110F3", "U+110F4", "U+110F5", "U+110F6", "U+110F7", "U+110F8", "U+110F9",
      "U+11136", "U+11137", "U+11138", "U+11139", "U+1113A", "U+1113B", "U+1113C", "U+1113D", "U+1113E", "U+1113F",
      "U+111D0", "U+111D1", "U+111D2", "U+111D3", "U+111D4", "U+111D5", "U+111D6", "U+111D7", "U+111D8", "U+111D9",
      "U+112F0", "U+112F1", "U+112F2", "U+112F3", "U+112F4", "U+112F5", "U+112F6", "U+112F7", "U+112F8", "U+112F9",
      "U+11450", "U+11451", "U+11452", "U+11453", "U+11454", "U+11455", "U+11456", "U+11457", "U+11458", "U+11459",
      "U+114D0", "U+114D1", "U+114D2", "U+114D3", "U+114D4", "U+114D5", "U+114D6", "U+114D7", "U+114D8", "U+114D9",
      "U+11650", "U+11651", "U+11652", "U+11653", "U+11654", "U+11655", "U+11656", "U+11657", "U+11658", "U+11659",
      "U+116C0", "U+116C1", "U+116C2", "U+116C3", "U+116C4", "U+116C5", "U+116C6", "U+116C7", "U+116C8", "U+116C9",
      "U+11730", "U+11731", "U+11732", "U+11733", "U+11734", "U+11735", "U+11736", "U+11737", "U+11738", "U+11739",
      "U+118E0", "U+118E1", "U+118E2", "U+118E3", "U+118E4", "U+118E5", "U+118E6", "U+118E7", "U+118E8", "U+118E9",
      "U+11950", "U+11951", "U+11952", "U+11953", "U+11954", "U+11955", "U+11956", "U+11957", "U+11958", "U+11959",
      "U+11C50", "U+11C51", "U+11C52", "U+11C53", "U+11C54", "U+11C55", "U+11C56", "U+11C57", "U+11C58", "U+11C59",
      "U+11D50", "U+11D51", "U+11D52", "U+11D53", "U+11D54", "U+11D55", "U+11D56", "U+11D57", "U+11D58", "U+11D59",
      "U+11DA0", "U+11DA1", "U+11DA2", "U+11DA3", "U+11DA4", "U+11DA5", "U+11DA6", "U+11DA7", "U+11DA8", "U+11DA9",
      "U+16A60", "U+16A61", "U+16A62", "U+16A63", "U+16A64", "U+16A65", "U+16A66", "U+16A67", "U+16A68", "U+16A69",
      "U+16AC0", "U+16AC1", "U+16AC2", "U+16AC3", "U+16AC4", "U+16AC5", "U+16AC6", "U+16AC7", "U+16AC8", "U+16AC9",
      "U+16B50", "U+16B51", "U+16B52", "U+16B53", "U+16B54", "U+16B55", "U+16B56", "U+16B57", "U+16B58", "U+16B59",
      "U+1D7CE", "U+1D7CF", "U+1D7D0", "U+1D7D1", "U+1D7D2", "U+1D7D3", "U+1D7D4", "U+1D7D5", "U+1D7D6", "U+1D7D7",
      "U+1D7D8", "U+1D7D9", "U+1D7DA", "U+1D7DB", "U+1D7DC", "U+1D7DD", "U+1D7DE", "U+1D7DF", "U+1D7E0", "U+1D7E1",
      "U+1D7E2", "U+1D7E3", "U+1D7E4", "U+1D7E5", "U+1D7E6", "U+1D7E7", "U+1D7E8", "U+1D7E9", "U+1D7EA", "U+1D7EB",
      "U+1D7EC", "U+1D7ED", "U+1D7EE", "U+1D7EF", "U+1D7F0", "U+1D7F1", "U+1D7F2", "U+1D7F3", "U+1D7F4", "U+1D7F5",
      "U+1D7F6", "U+1D7F7", "U+1D7F8", "U+1D7F9", "U+1D7FA", "U+1D7FB", "U+1D7FC", "U+1D7FD", "U+1D7FE", "U+1D7FF",
      "U+1E140", "U+1E141", "U+1E142", "U+1E143", "U+1E144", "U+1E145", "U+1E146", "U+1E147", "U+1E148", "U+1E149",
      "U+1E2F0", "U+1E2F1", "U+1E2F2", "U+1E2F3", "U+1E2F4", "U+1E2F5", "U+1E2F6", "U+1E2F7", "U+1E2F8", "U+1E2F9",
      "U+1E950", "U+1E951", "U+1E952", "U+1E953", "U+1E954", "U+1E955", "U+1E956", "U+1E957", "U+1E958", "U+1E959",
      "U+1FBF0", "U+1FBF1", "U+1FBF2", "U+1FBF3", "U+1FBF4", "U+1FBF5", "U+1FBF6", "U+1FBF7", "U+1FBF8", "U+1FBF9">>

DecimalDigits == {DigitChars[i] : i \in 1..Len(DigitChars)}
IsDigit(c) == c \in DecimalDigits
DigitVal(c) == ((CHOOSE i \in 1..Len(DigitChars) : DigitChars[i] = c) - 1) % 10

\* The characters str.strip() takes as whitespace: those of str.isspace().
Whitespace ==
    {" ", "\t", "\n", "\r", "\f", "U+000B",
     "U+001C", "U+001D", "U+001E", "U+001F", "U+0085", "U+00A0", "U+1680",
     "U+2000", "U+2001", "U+2002", "U+2003", "U+2004", "U+2005", "U+2006",
     "U+2007", "U+2008", "U+2009", "U+200A",
     "U+2028", "U+2029", "U+202F", "U+205F", "U+3000"}

\* The characters int() drops around a literal: the same, but for the four
\* separator controls U+001C to U+001F.
IntWhitespace == Whitespace \ {"U+001C", "U+001D", "U+001E", "U+001F"}

RECURSIVE NatToStr(_)
\* The decimal digits of n >= 0.
NatToStr(n) ==
    IF n < 10 THEN <<DigitChars[n + 1]>>
    ELSE NatToStr(n \div 10) \o <<DigitChars[(n % 10) + 1]>>

\* An int in an f-string: '-' and the digits, or the digits.
IntToStr(n) == IF n < 0 THEN <<"-">> \o NatToStr(0 - n) ELSE NatToStr(n)

RECURSIVE lstrip(_, _)
\* s without the characters of chars at its start.
lstrip(s, chars) == IF s # <<>> /\ Head(s) \in chars THEN lstrip(Tail(s), chars) ELSE s

RECURSIVE rstrip(_, _)
\* s without the characters of chars at its end.
rstrip(s, chars) ==
    IF s # <<>> /\ s[Len(s)] \in chars THEN rstrip(SubSeq(s, 1, Len(s) - 1), chars) ELSE s

\* str.strip()
strip(s) == rstrip(lstrip(s, Whitespace), Whitespace)

RECURSIVE split(_, _)

\* The piece before the separator at i, and the pieces after it.
splitAt(s, sep, i) == <<SubSeq(s, 1, i - 1)>> \o split(SubSeq(s, i + 1, Len(s)), sep)

\* str.split(sep) for a separator of one character: the pieces between the
\* separators, empty pieces included.
split(s, sep) ==
    IF \A i \in 1..Len(s) : s[i] # sep THEN <<s>>
    ELSE splitAt(s, sep, CHOOSE j \in 1..Len(s) : s[j] = sep /\ \A h \in 1..(j - 1) : s[h] # sep)

RECURSIVE DigitsVal(_, _)
\* The number written by the digits of s after acc, underscores skipped.
DigitsVal(s, acc) ==
    IF s = <<>> THEN acc
    ELSE IF Head(s) = "_" THEN DigitsVal(Tail(s), acc)
    ELSE DigitsVal(Tail(s), acc * 10 + DigitVal(Head(s)))

\* Digits, with single underscores allowed between them.
IsLiteral(body) ==
    /\ body # <<>>
    /\ \A i \in 1..Len(body) : IsDigit(body[i]) \/ body[i] = "_"
    /\ IsDigit(body[1])
    /\ IsDigit(body[Len(body)])
    /\ \A i \in 1..(Len(body) - 1) : ~(body[i] = "_" /\ body[i + 1] = "_")

\* The int of a literal without its sign, times sign.
intOfBody(body, sign) ==
    IF IsLiteral(body) THEN [raised |-> "", n |-> sign * DigitsVal(body, 0)]
    ELSE [raised |-> "ValueError", n |-> 0]

\* The int of a literal: an optional sign, then the digits.
intOfLiteral(t) ==
    IF t # <<>> /\ Head(t) = "-" THEN intOfBody(Tail(t), 0 - 1)
    ELSE IF t # <<>> /\ Head(t) = "+" THEN intOfBody(Tail(t), 1)
    ELSE intOfBody(t, 1)

\* int(s) of a str: whitespace around the literal is dropped; the literal is
\* an optional sign and digits, with single underscores allowed between
\* digits.  Anything else raises ValueError.
int(s) == intOfLiteral(rstrip(lstrip(s, IntWhitespace), IntWhitespace))

endswith(s, suffixes) == s # <<>> /\ s[Len(s)] \in suffixes

\* A piece as the loop of parse() reads it: its units and the int of the
\* rest, or the ValueError of that int.
withUnits(units, number) == [raised |-> number.raised, units |-> units, n |-> number.n]

\* One piece: a piece that does not end with g, s or k must be an int, and
\* is given the units k; the units are the last character and the number is
\* the int of what stands before it.
quantityOf(quantity) ==
    IF ~endswith(quantity, {"g", "s", "k"}) THEN withUnits("k", int(quantity))
    ELSE withUnits(quantity[Len(quantity)], int(SubSeq(quantity, 1, Len(quantity) - 1)))

RECURSIVE parseQuantities(_, _, _, _)

\* The end of the loop body, but a piece replaces the counter of its unit
\* instead of adding to it.
addQuantity_Overwrite(q, rest, galleons, sickles, knuts) ==
    IF q.raised # "" THEN [raised |-> "ValueError", val |-> PyNone]
    ELSE parseQuantities(rest,
                         IF q.units = "g" THEN q.n ELSE galleons,
                         IF q.units = "s" THEN q.n ELSE sickles,
                         IF q.units = "k" THEN q.n ELSE knuts)

\* The end of the loop body: a piece that is not a number raises; the number
\* is added to the counter of its units, and the loop goes on.
addQuantity(q, rest, galleons, sickles, knuts) ==
    IF q.raised # "" THEN [raised |-> "ValueError", val |-> PyNone]
    ELSE parseQuantities(rest,
                         IF q.units = "g" THEN galleons + q.n ELSE galleons,
                         IF q.units = "s" THEN sickles + q.n ELSE sickles,
                         IF q.units = "k" THEN knuts + q.n ELSE knuts)

\* The loop of parse() over the stripped pieces, with the counters so far; it
\* ends at the first piece that raises.
parseQuantities(quantities, galleons, sickles, knuts) ==
    IF quantities = <<>>
    THEN [raised |-> "", val |-> PyObj(WizardMoney(galleons, sickles, knuts), 0)]
    ELSE addQuantity(quantityOf(Head(quantities)), Tail(quantities), galleons, sickles, knuts)

\* tuple(q.strip() for q in pieces)
stripAll(pieces) == [i \in 1..Len(pieces) |-> strip(pieces[i])]

\* parse(): a str is split at the commas and its pieces are stripped and
\* summed; an int or a float is the amount in knuts.  Any other type is
\* rejected.
parse(quantity) ==
    IF quantity.t = "str"
    THEN parseQuantities(stripAll(split(quantity.s, ",")), 0, 0, 0)
    ELSE IF quantity.t \in {"int", "float"}
    THEN [raised |-> "", val |-> PyObj(WizardMoney(0, 0, PyTrunc(quantity.n, quantity.d)), 0)]
    ELSE [raised |-> "TypeError", val |-> PyNone]

\* WizardMoney(galleons) with one argument: a str is parsed and gives all
\* three fields; a number is the galleons; anything else is rejected.
init(galleons) ==
    IF galleons.t = "str"
    THEN LET parsedWizMon == parse(galleons)
         IN  IF parsedWizMon.raised # "" THEN parsedWizMon
             ELSE [raised |-> "",
                   val |-> PyObj(WizardMoney(parsedWizMon.val.obj.galleons,
                                             parsedWizMon.val.obj.sickles,
                                             parsedWizMon.val.obj.knuts), 0)]
    ELSE IF galleons.t \notin {"int", "float"}
    THEN [raised |-> "ValueError", val |-> PyNone]
    ELSE [raised |-> "", val |-> PyObj(WizardMoney(PyTrunc(galleons.n, galleons.d), 0, 0), 0)]

\* str(self), but of the amount in its largest-denomination form.
str_Normalized(self) ==
    IntToStr(asGalleons(self).galleons) \o <<"g", ",", " ">>
        \o IntToStr(asGalleons(self).sickles) \o <<"s", ",", " ">>
        \o IntToStr(asGalleons(self).knuts) \o <<"k">>

\* str(self)
str(self) ==
    IntToStr(self.galleons) \o <<"g", ",", " ">> \o IntToStr(self.sickles)
        \o <<"s", ",", " ">> \o IntToStr(self.knuts) \o <<"k">>

\* The first lines of the +, - operators: a str, int or float operand is
\* parsed; an operand that is then not a WizardMoney is rejected (by raising
\* the undefined name TypeException, a NameError).
Coerce(other) ==
    LET p == IF other.t \in {"str", "int", "float"} THEN parse(other)
             ELSE [raised |-> "", val |-> other]
    IN  IF p.raised # "" THEN p
        ELSE IF p.val.t # "WizardMoney" THEN [raised |-> "NameError", val |-> PyNone]
        ELSE p

add(self, other) ==
    LET p == Coerce(other)
        o == p.val.obj
    IN  IF p.raised # "" THEN Raised(self, p.raised)
        ELSE Returned(self, <<WizardMoney(o.galleons + self.galleons,
                                          o.sickles + self.sickles,
                                          o.knuts + self.knuts)>>)

radd(self, other) == add(self, other)

iadd(self, other) ==
    LET p == Coerce(other)
        o == p.val.obj
        s1 == [self EXCEPT !.galleons = self.galleons + o.galleons]
        s2 == [s1 EXCEPT !.sickles = s1.sickles + o.sickles]
        s3 == [s2 EXCEPT !.knuts = s2.knuts + o.knuts]
    IN  IF p.raised # "" THEN Raised(self, p.raised) ELSE ReturnedSelf(s3)

neg(self) ==
    Returned(self, <<WizardMoney(0 - self.galleons, 0 - self.sickles, 0 - self.knuts)>>)

sub(self, other) ==
    LET p == Coerce(other)
        o == p.val.obj
        galleons == self.galleons - o.galleons
        sickles == self.sickles - o.sickles
        knuts == self.knuts - o.knuts
    IN  IF p.raised # "" THEN Raised(self, p.raised)
        ELSE Returned(self, <<WizardMoney(galleons, sickles, knuts)>>)

\* __rsub__, but with the operands in the order of __sub__.
rsub_WrongOrder(self, other) ==
    LET p == Coerce(other)
        o == p.val.obj
        galleons == self.galleons - o.galleons
        sickles == self.sickles - o.sickles
        knuts == self.knuts - o.knuts
    IN  IF p.raised # "" THEN Raised(self, p.raised)
        ELSE Returned(self, <<WizardMoney(galleons, sickles, knuts)>>)

rsub(self, other) ==
    LET p == Coerce(other)
        o == p.val.obj
        galleons == o.galleons - self.galleons
        sickles == o.sickles - self.sickles
        knuts == o.knuts - self.knuts
    IN  IF p.raised # "" THEN Raised(self, p.raised)
        ELSE Returned(self, <<WizardMoney(galleons, sickles, knuts)>>)

isub(self, other) ==
    LET p == Coerce(other)
        o == p.val.obj
        s1 == [self EXCEPT !.galleons = self.galleons - o.galleons]
        s2 == [s1 EXCEPT !.sickles = s1.sickles - o.sickles]
        s3 == [s2 EXCEPT !.knuts = s2.knuts - o.knuts]
    IN  IF p.raised # "" THEN Raised(self, p.raised) ELSE ReturnedSelf(s3)

\* __mul__, but the product with a fractional float is rounded down instead
\* of cut toward zero.
mul_Flooring(self, other) ==
    IF other.t = "int" \/ (other.t = "float" /\ IsWhole(other))
    THEN Returned(self, <<WizardMoney(PyTrunc(self.galleons * other.n, other.d),
                                      PyTrunc(self.sickles * other.n, other.d),
                                      PyTrunc(self.knuts * other.n, other.d))>>)
    ELSE IF other.t = "float"
    THEN LET result == WizardMoney(0, 0, PyFloorDiv(value(self) * other.n, other.d))
         IN  Returned(self, <<convertToGalleons(result)>>)
    ELSE Raised(self, "ValueError")

\* __mul__, but every number multiplies the value, which is then
\* redistributed.
mul_Normalizing(self, other) ==
    IF other.t \in {"int", "float"}
    THEN LET result == WizardMoney(0, 0, PyTrunc(value(self) * other.n, other.d))
         IN  Returned(self, <<convertToGalleons(result)>>)
    ELSE Raised(self, "ValueError")

mul(self, other) ==
    IF other.t = "int" \/ (other.t = "float" /\ IsWhole(other))
    THEN Returned(self, <<WizardMoney(PyTrunc(self.galleons * other.n, other.d),
                                      PyTrunc(self.sickles * other.n, other.d),
                                      PyTrunc(self.knuts * other.n, other.d))>>)
    ELSE IF other.t = "float"
    THEN LET result == WizardMoney(0, 0, PyTrunc(value(self) * other.n, other.d))
         IN  Returned(self, <<convertToGalleons(result)>>)
    ELSE Raised(self, "ValueError")

rmul(self, other) == mul(self, other)

imul(self, other) ==
    IF other.t = "int" \/ (other.t = "float" /\ IsWhole(other))
    THEN LET s1 == [self EXCEPT !.galleons = PyTrunc(self.galleons * other.n, other.d)]
             s2 == [s1 EXCEPT !.sickles = PyTrunc(s1.sickles * other.n, other.d)]
             s3 == [s2 EXCEPT !.knuts = PyTrunc(s2.knuts * other.n, other.d)]
         IN  ReturnedSelf(s3)
    ELSE IF other.t = "float"
    THEN LET result == WizardMoney(0, 0, PyTrunc(value(self) * other.n, other.d))
         IN  Returned(self, <<convertToGalleons(result)>>)
    ELSE Raised(self, "ValueError")

\* int(v / other): the quotient is cut toward zero instead of floored.
IntFloorDiv_Truncating(v, other) ==
    IF other.n > 0 THEN PyTrunc(v * other.d, other.n)
    ELSE PyTrunc(0 - (v * other.d), 0 - other.n)

\* int(v // other) for an int v and a nonzero int or float other = n / d.
IntFloorDiv(v, other) == PyFloorDiv(v * other.d, other.n)

\* int(v % other) for an int v and a nonzero int or float other = n / d: the
\* remainder is PyMod(v * d, n) / d.
IntMod(v, other) == PyTrunc(PyMod(v * other.d, other.n), other.d)

\* __floordiv__, but the quotient is cut toward zero instead of floored.
floordiv_Truncating(self, other) ==
    IF other.t \notin {"int", "float"} THEN Raised(self, "ValueError")
    ELSE IF other.n = 0 THEN Raised(self, "ZeroDivisionError")
    ELSE LET result == WizardMoney(0, 0, IntFloorDiv_Truncating(value(self), other))
         IN  Returned(self, <<convertToGalleons(result)>>)

floordiv(self, other) ==
    IF other.t \notin {"int", "float"} THEN Raised(self, "ValueError")
    ELSE IF other.n = 0 THEN Raised(self, "ZeroDivisionError")
    ELSE LET result == WizardMoney(0, 0, IntFloorDiv(value(self), other))
         IN  Returned(self, <<convertToGalleons(result)>>)

ifloordiv(self, other) ==
    LET v == value(self)
        s1 == [self EXCEPT !.galleons = 0]
        s2 == [s1 EXCEPT !.sickles = 0]
    IN  IF other.t \notin {"int", "float"} THEN Raised(s2, "TypeError")
        ELSE IF other.n = 0 THEN Raised(s2, "ZeroDivisionError")
        ELSE LET s3 == [s2 EXCEPT !.knuts = IntFloorDiv(v, other)]
             IN  ReturnedSelf(convertToGalleons(s3))

truediv(self, other) == floordiv(self, other)

itruediv(self, other) ==
    LET r == ifloordiv(self, other)
    IN  IF r.kind = "raise" THEN r ELSE ReturnedSelf(r.self)

mod(self, other) ==
    IF other.t \notin {"int", "float"} THEN Raised(self, "TypeError")
    ELSE IF other.n = 0 THEN Raised(self, "ZeroDivisionError")
    ELSE LET result == WizardMoney(0, 0, IntMod(value(self), other))
         IN  Returned(self, <<convertToGalleons(result)>>)

\* __imod__, but galleons and sickles are cleared before the value is read.
imod_ZeroFirst(self, other) ==
    IF other.t \notin {"int", "float"} THEN Raised(self, "TypeError")
    ELSE IF other.n = 0 THEN Raised(self, "ZeroDivisionError")
    ELSE LET s1 == [self EXCEPT !.galleons = 0]
             s2 == [s1 EXCEPT !.sickles = 0]
             s3 == [s2 EXCEPT !.knuts = PyMod(value(s2), other.n)]
         IN  ReturnedSelf(convertToGalleons(s3))

\* %=: the remainder is stored as it is, an int for an int operand and a
\* float, PyMod(v * d, n) / d, for a float operand n / d.
imod(self, other) ==
    IF other.t \notin {"int", "float"} THEN Raised(self, "TypeError")
    ELSE IF other.n = 0 THEN Raised(self, "ZeroDivisionError")
    ELSE IF other.t = "int"
    THEN LET s1 == [self EXCEPT !.knuts = PyMod(value(self), other.n)]
             s2 == [s1 EXCEPT !.galleons = 0]
             s3 == [s2 EXCEPT !.sickles = 0]
         IN  ReturnedSelf(convertToGalleons(s3))
    ELSE LET s1 == FloatMoney(self.galleons * other.d, self.sickles * other.d,
                              PyMod(value(self) * other.d, other.n), other.d)
             s2 == [s1 EXCEPT !.galleons = 0]
             s3 == [s2 EXCEPT !.sickles = 0]
         IN  ReturnedSelf(convertToGalleonsFloat(s3))

\* int(value) as the setters call it: a number is cut to its integer part, a
\* str is read as a literal (ValueError when it is none), and any other value
\* is a TypeError.
intOf(val) ==
    IF val.t \in {"int", "float"} THEN [raised |-> "", n |-> PyTrunc(val.n, val.d)]
    ELSE IF val.t = "str" THEN int(val.s)
    ELSE [raised |-> "TypeError", n |-> 0]

\* The property setters: int(value), which a setter's except clause turns
\* into ValueError when it fails; the galleons setter catches ValueError only,
\* so that the TypeError of int(None) passes through it.
setGalleons(self, val) ==
    IF intOf(val).raised = "" THEN ReturnedNone([self EXCEPT !.galleons = intOf(val).n])
    ELSE Raised(self, intOf(val).raised)

setSickles(self, val) ==
    IF intOf(val).raised = "" THEN ReturnedNone([self EXCEPT !.sickles = intOf(val).n])
    ELSE Raised(self, "ValueError")

setKnuts(self, val) ==
    IF intOf(val).raised = "" THEN ReturnedNone([self EXCEPT !.knuts = intOf(val).n])
    ELSE Raised(self, "ValueError")

\* The property deleters.
delGalleons(self) == ReturnedNone([self EXCEPT !.galleons = 0])
delSickles(self) == ReturnedNone([self EXCEPT !.sickles = 0])
delKnuts(self) == ReturnedNone([self EXCEPT !.knuts = 0])

divmod(self, other) ==
    LET q == floordiv(self, other)
        r == mod(self, other)
    IN  IF q.kind = "raise" THEN q
        ELSE IF r.kind = "raise" THEN r
        ELSE Returned(self, q.new \o r.new)

RECURSIVE Gcd(_, _)
Gcd(a, b) == IF b = 0 THEN a ELSE Gcd(b, a % b)

\* int(v ** (p / q)) for v >= 0: the largest r >= 0 with r ** q <= v ** p,
\* which is at most v to the next whole power.
Root(v, p, q) ==
    CHOOSE r \in 0..IntPow(v, (p + q - 1) \div q) :
        IntPow(r, q) <= IntPow(v, p) /\ IntPow(r + 1, q) > IntPow(v, p)

\* int(v ** (p / q)) for p >= 0 and q >= 1 in lowest terms: v ** p when q = 1,
\* else the complex power of a negative v, which int() rejects, or the
\* integer part of the q-th root of v ** p.
intPowPositive(v, p, q) ==
    IF q = 1 THEN [raised |-> "", n |-> IntPow(v, p)]
    ELSE IF v < 0 THEN [raised |-> "TypeError", n |-> 0]
    ELSE [raised |-> "", n |-> Root(v, p, q)]

\* int(v ** -(p / q)) for p >= 1 and q >= 1 in lowest terms: 0 cannot be
\* raised to a negative power; otherwise the power is a float of magnitude at
\* most 1, which int() cuts to 0 unless it is 1 or -1, the powers of 1 and -1.
intPowNegative(v, p, q) ==
    IF v = 0 THEN [raised |-> "ZeroDivisionError", n |-> 0]
    ELSE IF q = 1 THEN [raised |-> "", n |-> IF v \in {1, 0 - 1} THEN IntPow(v, p) ELSE 0]
    ELSE IF v < 0 THEN [raised |-> "TypeError", n |-> 0]
    ELSE [raised |-> "", n |-> IF v = 1 THEN 1 ELSE 0]

\* The exponent |n| / d in lowest terms.
intPowReduced(v, n, d, g) ==
    IF n < 0 THEN intPowNegative(v, (0 - n) \div g, d \div g)
    ELSE intPowPositive(v, n \div g, d \div g)

\* int(v ** other) for an int v and an int or float other = n / d.
intPow(v, other) ==
    intPowReduced(v, other.n, other.d,
                  Gcd(IF other.n < 0 THEN 0 - other.n ELSE other.n, other.d))

\* The knuts of the result of **, or what the power raised.
powResult(self, power) ==
    IF power.raised # "" THEN Raised(self, power.raised)
    ELSE Returned(self, <<convertToGalleons(WizardMoney(0, 0, power.n))>>)

\* **
pow(self, other) ==
    IF other.t \notin {"int", "float"} THEN Raised(self, "ValueError")
    ELSE powResult(self, intPow(value(self), other))

\* The receiver after **=, or what the power raised before any assignment.
ipowResult(self, power) ==
    IF power.raised # "" THEN Raised(self, power.raised)
    ELSE LET s1 == [self EXCEPT !.knuts = power.n]
             s2 == [s1 EXCEPT !.galleons = 0]
             s3 == [s2 EXCEPT !.sickles = 0]
         IN  ReturnedSelf(convertToGalleons(s3))

\* **=
ipow(self, other) ==
    IF other.t \notin {"int", "float"} THEN Raised(self, "TypeError")
    ELSE ipowResult(self, intPow(value(self), other))

\* ==: the class defines no __eq__, so two references are equal exactly when
\* they refer to the same object.
eq(selfRef, otherRef) == selfRef = otherRef

----------------------------------------------------------------------------
\* The inputs.

RECURSIVE Pow2(_)
Pow2(n) == IF n = 0 THEN 1 ELSE 2 * Pow2(n - 1)

\* Counts next to a multiple of base, where a carry into the next
\* denomination starts or stops.
Near(base) == {base * i + j : i \in (0 - MaxCarry)..MaxCarry, j \in {0 - 1, 0, 1}}

\* The amounts of the source's examples.
DocAmounts ==
    {WizardMoney(5, 2, 10), WizardMoney(5, 2, 1000), WizardMoney(0, 200, 1000),
     WizardMoney(1, 25, 35), WizardMoney(2, 4, 6), WizardMoney(2, 5, 10)}

InitAmounts ==
    {WizardMoney(g, s, k) : g \in (0 - MaxGalleons)..MaxGalleons,
                            s \in Near(SICKLES_PER_GALLEON),
                            k \in Near(KNUTS_PER_SICKLE)}
    \cup DocAmounts

IntOperands == {PyInt(n) : n \in (0 - MaxInt)..MaxInt}
FloatOperands == {PyFloat(n, Pow2(FracBits)) : n \in (0 - MaxNum)..MaxNum}
NumberOperands == IntOperands \cup FloatOperands

\* An amount operand is a new object, the second of the heap.
AmountOperands ==
    {PyObj(WizardMoney(g, s, k), 2) : g \in (0 - MaxOther)..MaxOther,
                                      s \in (0 - MaxOther)..MaxOther,
                                      k \in (0 - MaxOther)..MaxOther}

AddOperands == AmountOperands \cup NumberOperands \cup {PyNone}
MulOperands == NumberOperands \cup {PyNone}

ImodOperands == NumberOperands \cup {PyNone}

\* The values assigned to a property: the largest ints and floats of either
\* sign, and None.
SetOperands ==
    {PyInt(0 - MaxInt), PyInt(MaxInt),
     PyFloat(0 - MaxNum, Pow2(FracBits)), PyFloat(MaxNum, Pow2(FracBits)), PyNone,
     PyStr(<<"3">>), PyStr(<<" ", "-", "1", "0", "\n">>), PyStr(<<"U+0663">>),
     PyStr(<<>>), PyStr(<<"5", "g">>)}
PowOperands == {PyInt(e) : e \in (0 - MaxExp)..MaxExp} \cup FloatOperands \cup {PyNone}

Abs(x) == IF x < 0 THEN 0 - x ELSE x

\* The powers the model computes: a worth of at most MaxPowBase knuts to a
\* whole exponent, a worth of at most MaxRootBase knuts to a fractional one.
PowInRange(self, other) ==
    \/ other.t \notin {"int", "float"}
    \/ Abs(value(self)) <= MaxRootBase
    \/ other.n % other.d = 0 /\ Abs(value(self)) <= MaxPowBase

----------------------------------------------------------------------------
\* The state.

VARIABLES
    heap,   \* the WizardMoney objects: heap[i] holds the fields of object i
    amt,    \* the caller's variable: the object the calls are made on
    alias,  \* a second variable, bound to the same object at construction
    call,   \* the call made last: its name, its operand, the receiver's fields before it
    ret     \* what that call returned (references into heap, or a bool) or raised

vars == <<heap, amt, alias, call, ret>>

ConversionOps ==
    {"asKnuts", "asSickles", "asGalleons",
     "convertToKnuts", "convertToSickles", "convertToGalleons"}

\* Calls are made on a newly constructed amount, after any number of
\* conversions of it; one operator is applied.
Open == call.op \in {"__init__"} \cup ConversionOps

Init ==
    /\ \E a \in InitAmounts : heap = <<a>>
    /\ amt = 1
    /\ alias = 1
    /\ call = [op |-> "__init__", arg |-> PyNone, pre |-> heap[1]]
    /\ ret = [kind |-> "none", refs |-> <<>>, val |-> FALSE, err |-> ""]

\* The heap after a call on heap[amt] whose outcome is o: the receiver, the
\* operand object if the call was given a new one, the objects the call made.
HeapAfter(arg, o) ==
    <<o.self>> \o (IF arg.ref = 2 THEN <<arg.obj>> ELSE <<>>) \o o.new

RetAfter(arg, o) ==
    LET h == HeapAfter(arg, o)
        first == Len(h) - Len(o.new)
    IN  [kind |-> o.kind,
         refs |-> IF o.kind = "self" THEN <<amt>>
                  ELSE [i \in 1..Len(o.new) |-> first + i],
         val |-> o.val,
         err |-> o.err]

\* A method call or a binary operator on amt: amt stays bound to its object.
Step(op, arg, o) ==
    /\ Open
    /\ heap' = HeapAfter(arg, o)
    /\ call' = [op |-> op, arg |-> arg, pre |-> heap[amt]]
    /\ ret' = RetAfter(arg, o)
    /\ UNCHANGED <<amt, alias>>

\* An augmented assignment, amt op= arg: amt is bound to what the method
\* returns, unless it raises.
AugStep(op, arg, o) ==
    /\ Open
    /\ heap' = HeapAfter(arg, o)
    /\ call' = [op |-> op, arg |-> arg, pre |-> heap[amt]]
    /\ ret' = RetAfter(arg, o)
    /\ amt' = IF o.kind = "raise" THEN amt ELSE RetAfter(arg, o).refs[1]
    /\ UNCHANGED alias

\* A binary operator with a new amount on the left and amt on the right,
\* other + amt or other - amt: the method runs on other.
SwappedStep(op, other, o) ==
    /\ Open
    /\ heap' = <<heap[amt], o.self>> \o o.new
    /\ call' = [op |-> op, arg |-> other, pre |-> heap[amt]]
    /\ ret' = [kind |-> o.kind, refs |-> [i \in 1..Len(o.new) |-> 2 + i],
               val |-> o.val, err |-> o.err]
    /\ UNCHANGED <<amt, alias>>

\* The receiver, as an operand.
Self == PyObj(heap[amt], amt)

----------------------------------------------------------------------------
\* The calls.

CallAsKnuts == Step("asKnuts", PyNone, Returned(heap[amt], <<asKnuts(heap[amt])>>))
CallAsSickles == Step("asSickles", PyNone, Returned(heap[amt], <<asSickles(heap[amt])>>))
CallAsGalleons == Step("asGalleons", PyNone, Returned(heap[amt], <<asGalleons(heap[amt])>>))

CallConvertToKnuts ==
    Step("convertToKnuts", PyNone, ReturnedNone(convertToKnuts(heap[amt])))
CallConvertToSickles ==
    Step("convertToSickles", PyNone, ReturnedNone(convertToSickles(heap[amt])))
CallConvertToGalleons ==
    Step("convertToGalleons", PyNone, ReturnedNone(convertToGalleons(heap[amt])))

CallAdd == \E other \in AddOperands : Step("add", other, add(heap[amt], other))
CallAddSwapped ==
    \E other \in AmountOperands : SwappedStep("add_swapped", other, add(other.obj, Self))
CallRadd == \E other \in NumberOperands \cup {PyNone} : Step("radd", other, radd(heap[amt], other))
CallIadd == \E other \in AddOperands : AugStep("iadd", other, iadd(heap[amt], other))
CallNeg == Step("neg", PyNone, neg(heap[amt]))
CallSub == \E other \in AddOperands : Step("sub", other, sub(heap[amt], other))
CallSubSwapped ==
    \E other \in AmountOperands : SwappedStep("sub_swapped", other, sub(other.obj, Self))
CallRsub == \E other \in NumberOperands \cup {PyNone} : Step("rsub", other, rsub(heap[amt], other))
CallIsub == \E other \in AddOperands : AugStep("isub", other, isub(heap[amt], other))

CallMul == \E other \in MulOperands : Step("mul", other, mul(heap[amt], other))
CallRmul == \E other \in MulOperands : Step("rmul", other, rmul(heap[amt], other))
CallImul == \E other \in MulOperands : AugStep("imul", other, imul(heap[amt], other))

CallFloordiv == \E other \in MulOperands : Step("floordiv", other, floordiv(heap[amt], other))
CallIfloordiv ==
    \E other \in MulOperands : AugStep("ifloordiv", other, ifloordiv(heap[amt], other))
CallTruediv == \E other \in MulOperands : Step("truediv", other, truediv(heap[amt], other))
CallItruediv ==
    \E other \in MulOperands : AugStep("itruediv", other, itruediv(heap[amt], other))

CallMod == \E other \in MulOperands : Step("mod", other, mod(heap[amt], other))
CallImod == \E other \in ImodOperands : AugStep("imod", other, imod(heap[amt], other))
CallDivmod == \E other \in MulOperands : Step("divmod", other, divmod(heap[amt], other))

CallPow ==
    \E other \in PowOperands :
        /\ PowInRange(heap[amt], other)
        /\ Step("pow", other, pow(heap[amt], other))
CallIpow ==
    \E other \in PowOperands :
        /\ PowInRange(heap[amt], other)
        /\ AugStep("ipow", other, ipow(heap[amt], other))

\* amt == other, with other a new amount or the alias of amt.
CallEq ==
    \E other \in AmountOperands \cup {PyObj(heap[alias], alias)} :
        Step("eq", other, ReturnedBool(heap[amt], eq(amt, other.ref)))

\* amt.galleons = val, amt.sickles = val, amt.knuts = val.
SetGalleons == \E val \in SetOperands : Step("set_galleons", val, setGalleons(heap[amt], val))
SetSickles == \E val \in SetOperands : Step("set_sickles", val, setSickles(heap[amt], val))
SetKnuts == \E val \in SetOperands : Step("set_knuts", val, setKnuts(heap[amt], val))

\* del amt.galleons, del amt.sickles, del amt.knuts.
DelGalleons == Step("del_galleons", PyNone, delGalleons(heap[amt]))
DelSickles == Step("del_sickles", PyNone, delSickles(heap[amt]))
DelKnuts == Step("del_knuts", PyNone, delKnuts(heap[amt]))

Next ==
    \/ CallAsKnuts \/ CallAsSickles \/ CallAsGalleons
    \/ CallConvertToKnuts \/ CallConvertToSickles \/ CallConvertToGalleons
    \/ CallAdd \/ CallAddSwapped \/ CallRadd \/ CallIadd
    \/ CallNeg
    \/ CallSub \/ CallSubSwapped \/ CallRsub \/ CallIsub
    \/ CallMul \/ CallRmul \/ CallImul
    \/ CallFloordiv \/ CallIfloordiv \/ CallTruediv \/ CallItruediv
    \/ CallMod \/ CallImod \/ CallDivmod
    \/ CallPow \/ CallIpow
    \/ CallEq
    \/ SetGalleons \/ SetSickles \/ SetKnuts
    \/ DelGalleons \/ DelSickles \/ DelKnuts

Spec == Init /\ [][Next]_vars

----------------------------------------------------------------------------
\* The object a call returned (the first, or the second of a pair).
Result == heap[ret.refs[1]]
Result2 == heap[ret.refs[2]]

PureConversionOps == {"asKnuts", "asSickles", "asGalleons"}
InPlaceConversionOps == {"convertToKnuts", "convertToSickles", "convertToGalleons"}
AugmentedOps == {"iadd", "isub", "imul", "ifloordiv", "itruediv", "imod", "ipow"}

\* The amount a conversion yields: the new object of a pure conversion, the
\* receiver of an in-place one.
Converted == IF call.op \in PureConversionOps THEN Result ELSE heap[amt]

\* C1: every pure conversion returns an amount of the value the receiver had,
\* and every in-place conversion leaves the receiver's value what it was;
\* conversions are made one after the other, so this holds along any sequence
\* of them.
C1_ValuePreserved ==
    call.op \in ConversionOps =>
        /\ value(Converted) = value(call.pre)
        /\ Converted.galleons * 493 + Converted.sickles * 29 + Converted.knuts
              = call.pre.galleons * 493 + call.pre.sickles * 29 + call.pre.knuts

\* A negative amount, first converted to knuts, then converted to galleons.
C1_Witness ==
    /\ call.op = "convertToGalleons"
    /\ call.pre.galleons = 0
    /\ call.pre.sickles = 0
    /\ call.pre.knuts < 0 - KNUTS_PER_GALLEON
    /\ heap[amt].galleons < 0
    /\ heap[amt].sickles > 0

\* C2: a == b is true exactly when a and b have the same value.
C2_EqualityByValue ==
    call.op = "eq" => (ret.val <=> (value(heap[amt]) = value(call.arg.obj)))

\* What the non-mutating counterpart of the augmented assignment made last
\* does on the fields the receiver had.
Counterpart ==
    CASE call.op = "iadd" -> add(call.pre, call.arg)
      [] call.op = "isub" -> sub(call.pre, call.arg)
      [] call.op = "imul" -> mul(call.pre, call.arg)
      [] call.op = "ifloordiv" -> floordiv(call.pre, call.arg)
      [] call.op = "itruediv" -> truediv(call.pre, call.arg)
      [] call.op = "imod" -> mod(call.pre, call.arg)
      [] call.op = "ipow" -> pow(call.pre, call.arg)

\* Two amounts whose fields are equal as numbers, ints or floats.
SameFields(a, b) ==
    /\ a.galleons * Den(b) = b.galleons * Den(a)
    /\ a.sickles * Den(b) = b.sickles * Den(a)
    /\ a.knuts * Den(b) = b.knuts * Den(a)

\* C3: an augmented assignment that succeeds returns the receiver itself, so
\* amt and alias still name one object, and that object has the fields the
\* non-mutating operator yields.
C3_AugmentedInPlace ==
    (call.op \in AugmentedOps /\ ret.kind # "raise") =>
        /\ ret.kind = "self"
        /\ amt = alias
        /\ SameFields(heap[alias], Counterpart.new[1])

\* C4: an augmented assignment that raises leaves the receiver's three fields
\* as they were before the call.
C4_NoPartialState ==
    (call.op \in AugmentedOps /\ ret.kind = "raise") => heap[alias] = call.pre

\* C5: with (q, r) = divmod(a, d) for a nonzero int d, q * d + r has the
\* value of a.
C5_DivmodRoundTrip ==
    (call.op = "divmod" /\ call.arg.t = "int" /\ call.arg.n # 0) =>
        LET qd == mul(Result, call.arg).new[1]
            sum == add(qd, PyObj(Result2, 0)).new[1]
        IN  /\ ret.kind = "new"
            /\ Len(ret.refs) = 2
            /\ value(sum) = value(call.pre)

\* A negative amount of mixed signs divided by a negative int, with a nonzero
\* remainder.
C5_Witness ==
    /\ call.op = "divmod"
    /\ call.arg.t = "int"
    /\ call.arg.n < 0 - 1
    /\ value(call.pre) < 0
    /\ call.pre.sickles > 0
    /\ value(Result2) # 0
    /\ value(Result) > 0

\* C6: after asGalleons / convertToGalleons, 0 <= sickles < 17 and
\* 0 <= knuts < 29, and with v the value of the amount converted,
\* galleons = floor(v / 493), sickles = floor((v mod 493) / 29),
\* knuts = v mod 29.
C6_NormalizedRange ==
    call.op \in {"asGalleons", "convertToGalleons"} =>
        LET v == call.pre.galleons * 493 + call.pre.sickles * 29 + call.pre.knuts
        IN  /\ 0 <= Converted.sickles /\ Converted.sickles < 17
            /\ 0 <= Converted.knuts /\ Converted.knuts < 29
            /\ Converted.galleons = v \div 493
            /\ Converted.sickles = (v % 493) \div 29
            /\ Converted.knuts = v % 29

\* asGalleons of an amount of negative value whose sickles and knuts have
\* different signs.
C6_Witness ==
    /\ call.op = "asGalleons"
    /\ call.pre.sickles > SICKLES_PER_GALLEON
    /\ call.pre.knuts < 0 - KNUTS_PER_SICKLE
    /\ call.pre.galleons < 0
    /\ Result.galleons < 0
    /\ Result.sickles > 0
    /\ Result.knuts > 0

\* C7: normalizing a normalized amount yields the same three fields, and a
\* second convertToKnuts or convertToSickles changes nothing.
C7_Idempotent ==
    /\ call.op \in {"asGalleons", "convertToGalleons"} =>
          /\ asGalleons(Converted) = Converted
          /\ convertToGalleons(Converted) = Converted
    /\ call.op = "convertToKnuts" => convertToKnuts(heap[amt]) = heap[amt]
    /\ call.op = "convertToSickles" => convertToSickles(heap[amt]) = heap[amt]

\* convertToGalleons called on an amount that an earlier call had normalized
\* (the galleons negative, so the amount is none of the constructed ones).
C7_Witness ==
    /\ call.op = "convertToGalleons"
    /\ call.pre = heap[amt]
    /\ heap[amt].galleons < 0 - MaxGalleons
    /\ heap[amt].sickles > 0
    /\ heap[amt].knuts > 0

\* C8: asSickles / convertToSickles of (g, s, k) yields galleons = 0,
\* sickles = s + 17*g + floor(k / 29), knuts = k mod 29 with 0 <= knuts < 29;
\* (5, 2, 10) becomes (0, 87, 10).
C8_ToSickles ==
    call.op \in {"asSickles", "convertToSickles"} =>
        /\ Converted.galleons = 0
        /\ Converted.sickles = call.pre.sickles + 17 * call.pre.galleons
                                   + (call.pre.knuts \div 29)
        /\ Converted.knuts = call.pre.knuts % 29
        /\ 0 <= Converted.knuts /\ Converted.knuts < 29
        /\ call.pre = WizardMoney(5, 2, 10) => Converted = WizardMoney(0, 87, 10)

\* convertToSickles of an amount with negative galleons and negative knuts.
C8_Witness ==
    /\ call.op = "convertToSickles"
    /\ call.pre.galleons < 0
    /\ call.pre.knuts < 0 - KNUTS_PER_SICKLE
    /\ call.pre.sickles > 0
    /\ heap[amt].sickles < 0
    /\ heap[amt].knuts > 0

\* The amount an operand of + or - stands for: an amount operand itself, a
\* number n the amount (0, 0, n) (a float cut to its whole part).
OperandAmount ==
    IF call.arg.t = "WizardMoney" THEN call.arg.obj
    ELSE [galleons |-> 0, sickles |-> 0,
          knuts |-> IF call.arg.n >= 0 THEN call.arg.n \div call.arg.d
                    ELSE 0 - ((0 - call.arg.n) \div call.arg.d)]

\* C9: a + b has the fields (a.g + b.g, a.s + b.s, a.k + b.k) and a - b the
\* fields (a.g - b.g, a.s - b.s, a.k - b.k), whatever their signs and sizes;
\* b + a has the fields of a + b, b - a those of a - b negated field by field;
\* a number n on either side stands for (0, 0, n).
C9_AddSubComponentwise ==
    LET a == call.pre
        b == OperandAmount
    IN  /\ (call.op \in {"add", "radd", "add_swapped"} /\ call.arg.t # "NoneType") =>
              /\ ret.kind = "new"
              /\ Result = [galleons |-> a.galleons + b.galleons,
                           sickles |-> a.sickles + b.sickles,
                           knuts |-> a.knuts + b.knuts]
        /\ (call.op = "sub" /\ call.arg.t # "NoneType") =>
              /\ ret.kind = "new"
              /\ Result = [galleons |-> a.galleons - b.galleons,
                           sickles |-> a.sickles - b.sickles,
                           knuts |-> a.knuts - b.knuts]
        /\ (call.op \in {"rsub", "sub_swapped"} /\ call.arg.t # "NoneType") =>
              /\ ret.kind = "new"
              /\ Result = [galleons |-> 0 - (a.galleons - b.galleons),
                           sickles |-> 0 - (a.sickles - b.sickles),
                           knuts |-> 0 - (a.knuts - b.knuts)]

\* A subtraction that leaves the sickles positive and the knuts negative.
C9_Witness ==
    /\ call.op = "sub"
    /\ call.arg.t = "WizardMoney"
    /\ call.pre = WizardMoney(0, 1, 0)
    /\ call.arg.obj = WizardMoney(0, 0, 1)
    /\ Result = WizardMoney(0, 1, 0 - 1)

\* C10: a * n for an int n multiplies each field by n and normalizes nothing,
\* so its value is n * a.value; n * a has the same fields.
C10_MulByInt ==
    (call.op \in {"mul", "rmul"} /\ call.arg.t = "int") =>
        /\ ret.kind = "new"
        /\ Result = [galleons |-> call.pre.galleons * call.arg.n,
                     sickles |-> call.pre.sickles * call.arg.n,
                     knuts |-> call.pre.knuts * call.arg.n]
        /\ value(Result) = call.arg.n * value(call.pre)

\* n * a for a negative n and an amount whose sickles exceed a galleon.
C10_Witness ==
    /\ call.op = "rmul"
    /\ call.arg.t = "int"
    /\ call.arg.n < 0 - 1
    /\ call.pre.sickles > SICKLES_PER_GALLEON
    /\ call.pre.knuts < 0
    /\ Result.sickles < 0 - (2 * SICKLES_PER_GALLEON)
    /\ Result.knuts > 0

\* C11: a * f for a fractional float f has the value a.value * f cut toward
\* zero to an integer, in the fields of its largest-denomination form.  The
\* float operands are binary fractions n / 2^FracBits, which a float holds
\* exactly; the multiplier 2.35 of the docstring is the float
\* 5291729562160333 / 2^51 and is not among them.
C11_MulByFraction ==
    (call.op \in {"mul", "rmul"} /\ call.arg.t = "float" /\ call.arg.n % call.arg.d # 0) =>
        LET x == (call.pre.galleons * 493 + call.pre.sickles * 29 + call.pre.knuts)
                     * call.arg.n
            d == call.arg.d
            t == Result.galleons * 493 + Result.sickles * 29 + Result.knuts
        IN  /\ ret.kind = "new"
            /\ x >= 0 => (t * d <= x /\ x < (t + 1) * d)
            /\ x < 0 => ((t - 1) * d < x /\ x <= t * d)
            /\ 0 <= Result.sickles /\ Result.sickles < 17
            /\ 0 <= Result.knuts /\ Result.knuts < 29

\* A product that is negative and not whole, so that cutting it toward zero
\* and rounding it down differ.
C11_Witness ==
    /\ call.op = "mul"
    /\ call.arg.t = "float"
    /\ call.arg.n % call.arg.d # 0
    /\ value(call.pre) * call.arg.n < 0
    /\ (value(call.pre) * call.arg.n) % call.arg.d # 0
    /\ Result.galleons < 0
    /\ Result.sickles > 0

\* C12: for an int d other than 0, a // d and a / d return a new amount whose
\* value is the floor of a.value / d, in the fields of its
\* largest-denomination form, and leave a as it was.
C12_FloorDivByInt ==
    (call.op \in {"floordiv", "truediv"} /\ call.arg.t = "int" /\ call.arg.n # 0) =>
        LET v == call.pre.galleons * 493 + call.pre.sickles * 29 + call.pre.knuts
            d == call.arg.n
            q == Result.galleons * 493 + Result.sickles * 29 + Result.knuts
        IN  /\ ret.kind = "new"
            /\ ret.refs[1] # amt
            /\ heap[amt] = call.pre
            /\ d > 0 => (q * d <= v /\ v < q * d + d)
            /\ d < 0 => (q * d >= v /\ v > q * d + d)
            /\ 0 <= Result.sickles /\ Result.sickles < 17
            /\ 0 <= Result.knuts /\ Result.knuts < 29

\* A quotient that is negative and not whole, so that the floor and the cut
\* toward zero differ.
C12_Witness ==
    /\ call.op = "truediv"
    /\ call.arg.t = "int"
    /\ call.arg.n > 1
    /\ value(call.pre) < 0
    /\ value(call.pre) % call.arg.n # 0
    /\ ret.kind = "new"
    /\ Result.galleons < 0

\* C13: for an int d other than 0, a % d has the value a.value mod d with the
\* sign of d (0 <= v < d for d > 0, d < v <= 0 for d < 0), in the fields of
\* its largest-denomination form, and a %= d leaves a itself with those fields.
C13_ModByInt ==
    (call.op \in {"mod", "imod"} /\ call.arg.t = "int" /\ call.arg.n # 0) =>
        LET v == call.pre.galleons * 493 + call.pre.sickles * 29 + call.pre.knuts
            d == call.arg.n
            R == IF call.op = "mod" THEN Result ELSE heap[amt]
            m == R.galleons * 493 + R.sickles * 29 + R.knuts
        IN  /\ call.op = "mod" => (ret.kind = "new" /\ heap[amt] = call.pre)
            /\ call.op = "imod" => (ret.kind = "self" /\ R = mod(call.pre, call.arg).new[1])
            /\ d > 0 => (0 <= m /\ m < d /\ (v - m) % d = 0)
            /\ d < 0 => (d < m /\ m <= 0 /\ (v - m) % (0 - d) = 0)
            /\ 0 <= R.sickles /\ R.sickles < 17
            /\ 0 <= R.knuts /\ R.knuts < 29

\* a %= d with a negative d that does not divide a positive a.value: the
\* remainder is negative and the receiver holds it.
C13_Witness ==
    /\ call.op = "imod"
    /\ call.arg.t = "int"
    /\ call.arg.n < 0
    /\ value(call.pre) > 0
    /\ call.pre.galleons > 0
    /\ ret.kind = "self"
    /\ heap[amt].galleons = 0 - 1
    /\ heap[amt].sickles = 16

\* C17: asKnuts, asSickles and asGalleons return a new amount and leave the
\* receiver's three fields as they were; convertToKnuts, convertToSickles and
\* convertToGalleons leave the receiver with the fields the matching pure
\* conversion returns for the same fields.
C17_PureVersusInPlace ==
    /\ call.op \in PureConversionOps =>
          /\ ret.kind = "new"
          /\ ret.refs[1] # amt
          /\ heap[amt] = call.pre
    /\ call.op = "asKnuts" => Result = convertToKnuts(call.pre)
    /\ call.op = "asSickles" => Result = convertToSickles(call.pre)
    /\ call.op = "asGalleons" => Result = convertToGalleons(call.pre)
    /\ call.op = "convertToKnuts" => heap[amt] = asKnuts(call.pre)
    /\ call.op = "convertToSickles" => heap[amt] = asSickles(call.pre)
    /\ call.op = "convertToGalleons" => heap[amt] = asGalleons(call.pre)

\* asSickles on an amount with galleons and with knuts to carry: the result
\* differs from the receiver, which still has its fields.
C17_Witness ==
    /\ call.op = "asSickles"
    /\ call.pre.galleons # 0
    /\ call.pre.knuts >= KNUTS_PER_SICKLE
    /\ ret.kind = "new"
    /\ Result # call.pre
    /\ Result.sickles # call.pre.sickles + call.pre.galleons * SICKLES_PER_GALLEON
    /\ heap[amt] = call.pre

----------------------------------------------------------------------------
\* src/non_oop_wizmon.py: amounts as dictionaries with the keys galleons,
\* sickles and knuts, and functions on them.  Each function yields the
\* dictionary it was given, as the call leaves it, and the one it returns.

getWizardMoney(galleons, sickles, knuts) ==
    [galleons |-> galleons, sickles |-> sickles, knuts |-> knuts]

copyWizardMoney(wizMon) ==
    [galleons |-> wizMon.galleons, sickles |-> wizMon.sickles, knuts |-> wizMon.knuts]

nonoop_convertToKnuts(wizMon) ==
    LET result == copyWizardMoney(wizMon)
        r1 == [result EXCEPT !.knuts = result.knuts + (result.galleons * 17 * 29)
                                                    + (result.sickles * 29)]
        r2 == [r1 EXCEPT !.galleons = 0]
        r3 == [r2 EXCEPT !.sickles = 0]
    IN  Returned(wizMon, <<r3>>)

nonoop_convertToSickles(wizMon) ==
    LET result == copyWizardMoney(wizMon)
        r1 == [result EXCEPT !.sickles = result.sickles + result.galleons * 17]
        r2 == [r1 EXCEPT !.galleons = 0]
        r3 == [r2 EXCEPT !.sickles = r2.sickles + PyFloorDiv(r2.knuts, 29)]
        r4 == [r3 EXCEPT !.knuts = PyMod(r3.knuts, 29)]
    IN  Returned(wizMon, <<r4>>)

nonoop_convertToGalleons(wizMon) ==
    LET result == copyWizardMoney(wizMon)
        r1 == [result EXCEPT !.galleons = result.galleons
                                 + PyFloorDiv(result.knuts, 29 * 17)
                                 + PyFloorDiv(result.sickles, 17)]
        r2 == [r1 EXCEPT !.sickles = PyMod(r1.sickles, 17)]
        r3 == [r2 EXCEPT !.knuts = PyMod(r2.knuts, 29 * 17)]
    IN  Returned(wizMon, <<r3>>)

getValue(wizMon) == nonoop_convertToKnuts(wizMon).new[1].knuts

\* The dictionaries the functions are called on.
NonOopAmounts ==
    {getWizardMoney(a.galleons, a.sickles, a.knuts) : a \in InitAmounts}

InitNonOop ==
    /\ \E wizMon \in NonOopAmounts : heap = <<wizMon>>
    /\ amt = 1
    /\ alias = 1
    /\ call = [op |-> "getWizardMoney", arg |-> PyNone, pre |-> heap[1]]
    /\ ret = [kind |-> "none", refs |-> <<>>, val |-> FALSE, err |-> ""]

\* A function is called on the dictionary amt names.
NonOopStep(op, o) ==
    /\ call.op = "getWizardMoney"
    /\ heap' = HeapAfter(PyNone, o)
    /\ call' = [op |-> op, arg |-> PyNone, pre |-> heap[amt]]
    /\ ret' = RetAfter(PyNone, o)
    /\ UNCHANGED <<amt, alias>>

NonOopConvertToKnuts ==
    NonOopStep("non_oop_wizmon.convertToKnuts", nonoop_convertToKnuts(heap[amt]))
NonOopConvertToSickles ==
    NonOopStep("non_oop_wizmon.convertToSickles", nonoop_convertToSickles(heap[amt]))
NonOopConvertToGalleons ==
    NonOopStep("non_oop_wizmon.convertToGalleons", nonoop_convertToGalleons(heap[amt]))

NextNonOop ==
    \/ NonOopConvertToKnuts
    \/ NonOopConvertToSickles
    \/ NonOopConvertToGalleons

SpecNonOop == InitNonOop /\ [][NextNonOop]_vars

\* C18: non_oop_wizmon.convertToGalleons returns a new dictionary and leaves
\* the one it was given unchanged; the result has the same value and the same
\* fields as asGalleons gives, with 0 <= sickles < 17 and 0 <= knuts < 29.
C18_NonOopToGalleons ==
    call.op = "non_oop_wizmon.convertToGalleons" =>
        /\ ret.kind = "new"
        /\ ret.refs[1] # amt
        /\ heap[amt] = call.pre
        /\ getValue(Result) = getValue(call.pre)
        /\ Result = asGalleons(call.pre)
        /\ 0 <= Result.sickles /\ Result.sickles < 17
        /\ 0 <= Result.knuts /\ Result.knuts < 29

\* What the function does keep: a new dictionary of the same value, the
\* argument unchanged, with 0 <= sickles < 17 and 0 <= knuts < 17 * 29.
NonOopToGalleons_ValueKept ==
    call.op = "non_oop_wizmon.convertToGalleons" =>
        /\ ret.kind = "new"
        /\ ret.refs[1] # amt
        /\ heap[amt] = call.pre
        /\ getValue(Result) = getValue(call.pre)
        /\ 0 <= Result.sickles /\ Result.sickles < 17
        /\ 0 <= Result.knuts /\ Result.knuts < 17 * 29

----------------------------------------------------------------------------
\* The operations that assign to the receiver's fields.
MutatingOps ==
    InPlaceConversionOps \cup AugmentedOps
        \cup {"set_galleons", "set_sickles", "set_knuts",
              "del_galleons", "del_sickles", "del_knuts"}

\* C19: after a setter, a deleter, an in-place conversion or an augmented
\* assignment with an int or float operand that succeeds, the galleons,
\* sickles and knuts of amt are whole numbers.
C19_IntegerFields ==
    (call.op \in MutatingOps /\ ret.kind # "raise") =>
        /\ heap[amt].galleons % Den(heap[amt]) = 0
        /\ heap[amt].sickles % Den(heap[amt]) = 0
        /\ heap[amt].knuts % Den(heap[amt]) = 0

\* What holds of every mutating operation but %= with a float: the fields are
\* ints.
IntegerFieldsButImod ==
    (call.op \in MutatingOps /\ ret.kind # "raise"
        /\ ~(call.op = "imod" /\ call.arg.t = "float")) =>
        "den" \notin DOMAIN heap[amt]

----------------------------------------------------------------------------
\* parse() and the constructor on text.

MaxQty == 2
MaxPieces == 2

\* The numbers of the quantities the loop of parse() expects: '5g', '10k',
\* '-4s', '3'.
DocQuantities == {5, 10, 0 - 4, 3}
Quantities == ((0 - MaxQty)..MaxQty) \cup DocQuantities
Units == {<<"g">>, <<"s">>, <<"k">>, <<>>}

\* A number and a unit, or a number alone.
PlainPieces == {IntToStr(n) \o u : n \in Quantities, u \in Units}

\* Pieces with whitespace around them, as in '5g, 10k'.
PaddedPieces ==
    {<<" ", "5", "g">>,
     <<" ", "1", "0", "k">>,
     <<"5", "g", " ">>,
     <<" ", "-", "4", "s", " ">>}

\* Pieces that are empty, lack a number, or have other characters in or
\* around the number or the unit.
OddPieces ==
    {<<>>,
     <<" ">>,
     <<"g">>,
     <<"-">>,
     <<"-", "k">>,
     <<"5", "x">>,
     <<"5", "G">>,
     <<"5", " ", "g">>,
     <<"+", "5", "g">>,
     <<"+", "5">>,
     <<"1", "_", "0", "g">>,
     <<"5", "_", "g">>,
     <<"5", ".", "0", "g">>,
     <<"-", "-", "5", "g">>,
     <<"5", "g", "g">>,
     <<"-", " ", "5", "g">>}

\* Pieces with digits of other scripts (the Arabic-Indic three, the fullwidth
\* three) and with whitespace other than the space: a carriage return, a
\* no-break space, a file separator.
UnicodePieces ==
    {<<"U+0663", "g">>,
     <<"1", "U+FF13">>,
     <<"5", "g", "\r">>,
     <<"U+00A0", "5", "k">>,
     <<"5", "U+00A0", "s">>,
     <<"U+001C", "5", "g">>,
     <<"5", "U+001C", "g">>}

Pieces == PlainPieces \cup PaddedPieces \cup OddPieces \cup UnicodePieces

RECURSIVE join(_, _)
\* sep.join(pieces)
join(pieces, sep) ==
    IF Len(pieces) = 1 THEN pieces[1]
    ELSE pieces[1] \o <<sep>> \o join(Tail(pieces), sep)

\* The texts given to parse() and to the constructor: up to MaxPieces pieces
\* with commas between them.
ParseTexts ==
    {join(ps, ",") : ps \in UNION {[1..n -> Pieces] : n \in 1..MaxPieces}}

\* The module is imported and no amount has been made.
InitParse ==
    /\ heap = <<>>
    /\ amt = 0
    /\ alias = 0
    /\ call = [op |-> "import", arg |-> PyNone, pre |-> NoObj]
    /\ ret = [kind |-> "none", refs |-> <<>>, val |-> FALSE, err |-> ""]

\* The outcome of a function that raised or returned the new object p.val.
TextStep(op, text, p) ==
    /\ heap' = IF p.raised = "" THEN heap \o <<p.val.obj>> ELSE heap
    /\ call' = [op |-> op, arg |-> PyStr(text),
                pre |-> IF amt = 0 THEN NoObj ELSE heap[amt]]
    /\ ret' = [kind |-> IF p.raised = "" THEN "new" ELSE "raise",
               refs |-> IF p.raised = "" THEN <<Len(heap) + 1>> ELSE <<>>,
               val |-> FALSE,
               err |-> p.raised]
    /\ UNCHANGED <<amt, alias>>

\* parse(text)
CallParse ==
    /\ call.op = "import"
    /\ \E text \in ParseTexts : TextStep("parse", text, parse(PyStr(text)))

\* WizardMoney(text)
CallInit ==
    /\ call.op = "import"
    /\ \E text \in ParseTexts : TextStep("WizardMoney", text, init(PyStr(text)))

\* amt = WizardMoney(galleons, sickles, knuts)
Construct ==
    /\ call.op = "import"
    /\ \E a \in InitAmounts : heap' = <<a>> /\ call' = [op |-> "__init__", arg |-> PyNone, pre |-> a]
    /\ amt' = 1
    /\ alias' = 1
    /\ UNCHANGED ret

\* parse(str(amt))
CallParseOfStr ==
    /\ call.op = "__init__"
    /\ TextStep("parse", str(heap[amt]), parse(PyStr(str(heap[amt]))))

\* WizardMoney(str(amt))
CallInitOfStr ==
    /\ call.op = "__init__"
    /\ TextStep("WizardMoney", str(heap[amt]), init(PyStr(str(heap[amt]))))

NextParse ==
    \/ CallParse
    \/ CallInit
    \/ Construct
    \/ CallParseOfStr
    \/ CallInitOfStr

SpecParse == InitParse /\ [][NextParse]_vars

\* The pieces of the text of the last call, split at the commas and trimmed.
TrimmedPieces ==
    LET ps == split(call.arg.s, ",")
    IN  [i \in 1..Len(ps) |-> strip(ps[i])]

\* The digits of a piece: what is left of it without a leading '-' and a
\* final g, s or k.
DigitsOf(q) ==
    LET body == IF q # <<>> /\ Head(q) = "-" THEN Tail(q) ELSE q
    IN  IF endswith(body, {"g", "s", "k"}) THEN SubSeq(body, 1, Len(body) - 1) ELSE body

\* A piece of the form -?<digits>, optionally followed by one of g, s, k, the
\* digits being 0 to 9.
Matches(q) ==
    /\ DigitsOf(q) # <<>>
    /\ \A i \in 1..Len(DigitsOf(q)) : \E n \in 0..9 : DigitsOf(q)[i] = DigitChars[n + 1]

UnitOf(q) == IF endswith(q, {"g", "s", "k"}) THEN q[Len(q)] ELSE "k"

NumberOf(q) ==
    IF q # <<>> /\ Head(q) = "-" THEN 0 - DigitsVal(DigitsOf(q), 0)
    ELSE DigitsVal(DigitsOf(q), 0)

RECURSIVE SumOf(_, _)
\* The sum of the numbers of the pieces with the unit.
SumOf(qs, unit) ==
    IF qs = <<>> THEN 0
    ELSE (IF UnitOf(Head(qs)) = unit THEN NumberOf(Head(qs)) ELSE 0) + SumOf(Tail(qs), unit)

\* C14: parse of a text whose trimmed pieces all have the form -?<digits> with
\* an optional g, s or k returns the amount whose galleons, sickles and knuts
\* are the sums of the g pieces, the s pieces and the k or unit-less pieces,
\* not normalized; the pieces in any other order give the same amount;
\* '5g, 5g' gives what '10g' gives, and '5g, 10k' has the value 2475.
C14_ParseSums ==
    (call.op = "parse" /\ amt = 0 /\ \A i \in DOMAIN TrimmedPieces : Matches(TrimmedPieces[i])) =>
        LET ps == split(call.arg.s, ",")
        IN  /\ ret.kind = "new"
            /\ Result.galleons = SumOf(TrimmedPieces, "g")
            /\ Result.sickles = SumOf(TrimmedPieces, "s")
            /\ Result.knuts = SumOf(TrimmedPieces, "k")
            /\ \A f \in Permutations(DOMAIN ps) :
                  LET other == parse(PyStr(join([i \in DOMAIN ps |-> ps[f[i]]], ",")))
                  IN  other.raised = "" /\ other.val.obj = Result
            /\ call.arg.s = <<"5", "g", ",", " ", "5", "g">>
                  => Result = parse(PyStr(<<"1", "0", "g">>)).val.obj
            /\ call.arg.s = <<"5", "g", ",", " ", "1", "0", "k">>
                  => Result.galleons * 493 + Result.sickles * 29 + Result.knuts = 2475

\* Two pieces of one unit, the first of them negative and the second larger.
C14_Witness ==
    /\ call.op = "parse"
    /\ amt = 0
    /\ Len(TrimmedPieces) = 2
    /\ Matches(TrimmedPieces[1]) /\ Matches(TrimmedPieces[2])
    /\ UnitOf(TrimmedPieces[1]) = "s" /\ UnitOf(TrimmedPieces[2]) = "s"
    /\ NumberOf(TrimmedPieces[1]) < 0
    /\ NumberOf(TrimmedPieces[2]) > 0 - NumberOf(TrimmedPieces[1])
    /\ ret.kind = "new"
    /\ Result.sickles > 0
    /\ Result.galleons = 0

\* C15: parse of a text returns an amount only if every trimmed piece has the
\* form -?<digits> with an optional g, s or k directly behind the digits;
\* with any other piece it raises ValueError and makes no amount.
C15_ParseRejects ==
    (call.op = "parse" /\ amt = 0) =>
        /\ ret.kind = "new" => \A i \in DOMAIN TrimmedPieces : Matches(TrimmedPieces[i])
        /\ ret.kind # "new" => (ret.kind = "raise" /\ ret.err = "ValueError" /\ heap = <<>>)

\* What parse does reject: a piece whose number int() does not take (no
\* digits, a character other than digits, sign, underscore and whitespace).
ParseRejects_NoDigits ==
    (call.op = "parse" /\ amt = 0) =>
        /\ ret.kind = "new" =>
              \A i \in DOMAIN TrimmedPieces : \E j \in DOMAIN TrimmedPieces[i] :
                  IsDigit(TrimmedPieces[i][j])
        /\ ret.kind # "new" => (ret.kind = "raise" /\ ret.err = "ValueError" /\ heap = <<>>)

\* C16: str(a) is the three fields of a as they are, '{galleons}g, {sickles}s,
\* {knuts}k'; parse and the constructor take it and return a new amount with
\* the fields of a.
C16_TextRoundTrip ==
    (call.op \in {"parse", "WizardMoney"} /\ amt = 1) =>
        /\ call.arg.s = IntToStr(call.pre.galleons) \o <<"g", ",", " ">>
                            \o IntToStr(call.pre.sickles) \o <<"s", ",", " ">>
                            \o IntToStr(call.pre.knuts) \o <<"k">>
        /\ ret.kind = "new"
        /\ ret.refs[1] # amt
        /\ Result = call.pre
        /\ heap[amt] = call.pre

\* The constructor on the text of an amount with negative fields and with
\* sickles beyond a galleon.
C16_Witness ==
    /\ call.op = "WizardMoney"
    /\ amt = 1
    /\ call.pre.galleons < 0
    /\ call.pre.sickles > SICKLES_PER_GALLEON
    /\ call.pre.knuts < 0 - KNUTS_PER_SICKLE
    /\ call.arg.s[1] = "-"
    /\ ret.kind = "new"
    /\ Result = call.pre

====
